---- MODULE Spec2Model ----
(***************************************************************************)
(* pshovr: the psh entry point (src/bin/psh.rs) and the Pushover client    *)
(* library (src/lib.rs).                                                   *)
(*                                                                         *)
(* A Rust String is a sequence of one-character strings.  An Option<T> is  *)
(* a sequence of length 0 (None) or 1 (Some).                              *)
(***************************************************************************)
EXTENDS Integers, Sequences, FiniteSets, TLC

\* ------------------------------------------------------------------ bounds
MaxLen == 3     \* longest input stream, in characters
MaxArgs == 2    \* most command line arguments after the program name
MaxCalls == 3   \* most setter calls applied to one built Notification

\* ------------------------------------------------------------------ values
None == << >>
Some(v) == <<v>>
IsSome(o) == Len(o) = 1
Unwrap(o) == o[1]

Chars == {"a", " ", "\t", "\n"}

StringsUpTo(k) == UNION {[1..m -> Chars] : m \in 0..k}

StdinContents == StringsUpTo(MaxLen)

\* the values a single command line argument takes
Words == {<< >>, <<"a", " ", "a">>, <<" ", "a", "\t">>}

ArgLists == UNION {[1..m -> Words] : m \in 0..MaxArgs}

Tokens == {"tok1", "tok2"}

\* ------------------------------------------------------- std text helpers
\* char::is_whitespace, restricted to Chars
IsWhitespace(c) == c \in {" ", "\t", "\n"}

\* faulty variant: strips one line terminator only
trim_end_newline_only(s) ==
    IF Len(s) > 0 /\ s[Len(s)] = "\n" THEN SubSeq(s, 1, Len(s) - 1) ELSE s

\* str::trim_end: drops the longest suffix of whitespace characters
RECURSIVE trim_end(_)
trim_end(s) ==
    IF Len(s) > 0 /\ IsWhitespace(s[Len(s)])
    THEN trim_end(SubSeq(s, 1, Len(s) - 1))
    ELSE s

\* faulty variant: joins with no separator
RECURSIVE join_nosep(_, _)
join_nosep(xs, sep) ==
    IF Len(xs) = 0 THEN << >>
    ELSE IF Len(xs) = 1 THEN xs[1]
    ELSE xs[1] \o join_nosep(Tail(xs), sep)

\* [String]::join(sep)
RECURSIVE join(_, _)
join(xs, sep) ==
    IF Len(xs) = 0 THEN << >>
    ELSE IF Len(xs) = 1 THEN xs[1]
    ELSE xs[1] \o sep \o join(Tail(xs), sep)

\* ------------------------------------------------------------ input stream
\* a BufRead: the bytes it holds and how many of them were consumed
Stream(content) == [content |-> content, pos |-> 0]

\* the number of characters BufRead::read_line takes from position p: up to
\* and including the first "\n", or up to the end of the data
RECURSIVE LineLen(_, _)
LineLen(content, p) ==
    IF p >= Len(content) THEN 0
    ELSE IF content[p + 1] = "\n" THEN 1
    ELSE 1 + LineLen(content, p + 1)

\* BufRead::read_line into an empty buffer.  ok = FALSE is a failed read (an
\* I/O error or invalid UTF-8): k characters of the line were consumed before
\* the failure; the caller drops the buffer, written here as empty.
read_line(stream, ok, k) ==
    LET n == LineLen(stream.content, stream.pos) IN
    IF ok
    THEN [ok |-> TRUE,
          buf |-> SubSeq(stream.content, stream.pos + 1, stream.pos + n),
          stream |-> [stream EXCEPT !.pos = stream.pos + n]]
    ELSE [ok |-> FALSE,
          buf |-> << >>,
          stream |-> [stream EXCEPT !.pos = stream.pos + k]]

\* the read outcomes the environment can produce on a stream
ReadOutcomes(stream) ==
    {<<TRUE, 0>>} \cup
    {<<FALSE, k>> : k \in 0..LineLen(stream.content, stream.pos)}

\* ----------------------------------------------------------- psh.rs
\* faulty variant: returns an empty payload instead of None
get_stdin_payload_empty_ok(stdin, ok, k) ==
    LET r == read_line(stdin, ok, k) IN
    IF ~r.ok THEN [result |-> None, stdin |-> r.stream, reads |-> 1]
    ELSE [result |-> Some(r.buf), stdin |-> r.stream, reads |-> 1]

get_stdin_payload(stdin, ok, k) ==
    LET r == read_line(stdin, ok, k) IN
    IF ~r.ok THEN [result |-> None, stdin |-> r.stream, reads |-> 1]
    ELSE IF Len(r.buf) = 0
         THEN [result |-> None, stdin |-> r.stream, reads |-> 1]
         ELSE [result |-> Some(r.buf), stdin |-> r.stream, reads |-> 1]

\* faulty variant: falls back to the input stream for a single argument
get_payload_one_arg_reads(args, stdin, ok, k) ==
    LET cli_args == SubSeq(args, 2, Len(args)) IN
    IF Len(cli_args) <= 1 THEN get_stdin_payload(stdin, ok, k)
    ELSE [result |-> Some(join(cli_args, <<" ">>)), stdin |-> stdin, reads |-> 0]

\* _get_payload(args, stdin): args[1] is the program name
get_payload(args, stdin, ok, k) ==
    LET cli_args == SubSeq(args, 2, Len(args)) IN
    IF Len(cli_args) = 0 THEN get_stdin_payload(stdin, ok, k)
    ELSE IF Len(cli_args) = 1
         THEN [result |-> Some(cli_args[1]), stdin |-> stdin, reads |-> 0]
         ELSE [result |-> Some(join(cli_args, <<" ">>)), stdin |-> stdin, reads |-> 0]

\* ----------------------------------------------------------- lib.rs
MESSAGE_API_URL == "https://api.pushover.net/1/messages.json"

Priority == {"NoNotification", "QuietNotification", "HighPriority", "RequireConfirmation"}

\* faulty variant: encodes HighPriority as the neutral priority
PriorityWire_zero(p) ==
    CASE p = "NoNotification" -> -2
      [] p = "QuietNotification" -> -1
      [] p = "HighPriority" -> 0
      [] p = "RequireConfirmation" -> 2

\* impl Serialize for Priority: the i8 handed to the serializer
PriorityWire(p) ==
    CASE p = "NoNotification" -> -2
      [] p = "QuietNotification" -> -1
      [] p = "HighPriority" -> 1
      [] p = "RequireConfirmation" -> 2

OptionalFields == <<"title", "url", "url_title", "priority">>

\* PushoverClient::new; the reqwest handle carries no state of the model
new(token) == [token |-> token, client |-> "reqwest::Client"]

\* PushoverClient::build_notification
build_notification(self, user, message) ==
    [token |-> self.token, user |-> user, message |-> message,
     title |-> None, url |-> None, url_title |-> None, priority |-> None]

\* faulty variant: keeps the first value of a field that is already set
setter_keep_first(self, field, value) ==
    IF IsSome(self[field]) THEN self ELSE [self EXCEPT ![field] = Some(value)]

\* setter!($field, ..): self.$field = Some($field); self
setter(self, field, value) == [self EXCEPT ![field] = Some(value)]

title(self, v) == setter(self, "title", v)
url(self, v) == setter(self, "url", v)
url_title(self, v) == setter(self, "url_title", v)
priority(self, v) == setter(self, "priority", v)

\* What #[derive(Serialize)] on Notification hands to a serializer: the seven
\* fields in declaration order, each as <<key, value>>.  A value is
\* <<"str", s>>, <<"i8", n>> or, for an Option that is None, <<"none">>: no
\* field carries skip_serializing_if.
SerStr(s) == <<"str", s>>
SerOptStr(o) == IF IsSome(o) THEN <<"str", Unwrap(o)>> ELSE <<"none">>
SerOptPriority(o) == IF IsSome(o) THEN <<"i8", PriorityWire(Unwrap(o))>> ELSE <<"none">>

Serialize(n) ==
    << <<"token", SerStr(n.token)>>,
       <<"user", SerStr(n.user)>>,
       <<"message", SerStr(n.message)>>,
       <<"title", SerOptStr(n.title)>>,
       <<"url", SerOptStr(n.url)>>,
       <<"url_title", SerOptStr(n.url_title)>>,
       <<"priority", SerOptPriority(n.priority)>> >>

IsPresent(pair) == pair[2][1] # "none"

\* faulty variant: sends a None field as a key with an empty value
FormBody_empty_for_none(n) ==
    LET f == Serialize(n) IN
    [i \in 1..Len(f) |-> IF IsPresent(f[i]) THEN f[i] ELSE <<f[i][1], <<"str", << >> >> >>]

\* RequestBuilder::form(&notification): the urlencoded serializer writes a
\* key=value pair for every field except those whose value is None
FormBody(n) == SelectSeq(Serialize(n), IsPresent)

\* serde_json::to_string(&req), as the crate's test serializes a Notification:
\* every field is written, a None as the null marker
JsonNull == <<"null">>
JsonBody(n) ==
    LET f == Serialize(n) IN
    [i \in 1..Len(f) |-> IF IsPresent(f[i]) THEN f[i] ELSE <<f[i][1], JsonNull>>]

\* the keys of a serialized form
Keys(body) == {body[i][1] : i \in 1..Len(body)}
ValueOf(body, key) == body[CHOOSE i \in 1..Len(body) : body[i][1] = key][2]

\* the marker #[redacted] prints for a field
REDACTED == "..."

\* faulty variant: is a plain #[derive(Debug)]
DebugNotification_plain(n) ==
    << "Notification", <<"token", n.token>>, <<"user", n.user>>, <<"message", n.message>>,
       <<"title", n.title>>, <<"url", n.url>>, <<"url_title", n.url_title>>,
       <<"priority", n.priority>> >>

\* #[derive(RedactedDebug)] on Notification
DebugNotification(n) ==
    << "Notification", <<"token", REDACTED>>, <<"user", n.user>>, <<"message", n.message>>,
       <<"title", n.title>>, <<"url", n.url>>, <<"url_title", n.url_title>>,
       <<"priority", n.priority>> >>

\* #[derive(RedactedDebug)] on PushoverClient
DebugClient(c) ==
    << "PushoverClient", <<"token", REDACTED>>, <<"client", c.client>> >>

\* the request PushoverClient::send issues: one form-encoded POST
send(self, notification) ==
    [method |-> "POST", url |-> MESSAGE_API_URL, body |-> FormBody(notification)]

\* ------------------------------------------------------------------ state
VARIABLES
    env,        \* the process environment: PUSHOVER_API_KEY, PUSHOVER_USER_KEY
    args,       \* env::args(): the program name, then the arguments
    stdin,      \* the input stream
    pc,         \* main's position
    pushover,   \* Option: the PushoverClient
    user_key,   \* Option: main's user_key
    payload,    \* Option: main's payload
    req,        \* Option: the Notification
    posts,      \* the HTTP requests issued so far
    reads,      \* the read_line calls made on stdin so far
    last_read,  \* Option: whether the last read_line call succeeded
    err,        \* the error main returned, "" when none
    built,      \* Option: the Notification as build_notification returned it
    hist,       \* the setter calls applied to req since, as <<field, value>>
    out         \* Option: the last serialized or formatted output

vars == <<env, args, stdin, pc, pushover, user_key, payload, req, posts, reads,
          last_read, err, built, hist, out>>

envVars == <<env, args>>
libVars == <<hist, out>>
ioVars == <<stdin, reads, last_read>>

UserKeys == {"usr"}
Messages == {<<"m">>}
Texts == {<<"x">>, <<"y">>}

Values(field) == IF field = "priority" THEN Priority ELSE Texts

\* ------------------------------------------------------------ psh.rs main
Init ==
    /\ env \in [PUSHOVER_API_KEY : {None} \cup {Some(t) : t \in Tokens},
                PUSHOVER_USER_KEY : {None} \cup {Some(u) : u \in UserKeys}]
    /\ args \in {<<"psh">> \o a : a \in ArgLists}
    /\ stdin \in {Stream(c) : c \in StdinContents}
    /\ pc = "start"
    /\ pushover = None
    /\ user_key = None
    /\ payload = None
    /\ req = None
    /\ posts = << >>
    /\ reads = 0
    /\ last_read = None
    /\ err = ""
    /\ built = None
    /\ hist = << >>
    /\ out = None

\* lines 39-42: env::var("PUSHOVER_API_KEY")?, PushoverClient::new
main_api_key ==
    /\ pc = "start"
    /\ IF IsSome(env.PUSHOVER_API_KEY)
       THEN /\ pushover' = Some(new(Unwrap(env.PUSHOVER_API_KEY)))
            /\ pc' = "client"
            /\ err' = err
       ELSE /\ pushover' = pushover
            /\ pc' = "exit"
            /\ err' = "Didn't get api key from PUSHOVER_API_KEY"
    /\ UNCHANGED <<envVars, ioVars, user_key, payload, req, posts, built, libVars>>

\* faulty variant: goes on with an empty user key when the variable is missing
main_user_key_default ==
    /\ pc = "client"
    /\ IF IsSome(env.PUSHOVER_USER_KEY)
       THEN user_key' = env.PUSHOVER_USER_KEY
       ELSE user_key' = Some("")
    /\ pc' = "user"
    /\ UNCHANGED <<envVars, ioVars, pushover, payload, req, posts, err, built, libVars>>

\* lines 43-44: env::var("PUSHOVER_USER_KEY")?
main_user_key ==
    /\ pc = "client"
    /\ IF IsSome(env.PUSHOVER_USER_KEY)
       THEN /\ user_key' = env.PUSHOVER_USER_KEY
            /\ pc' = "user"
            /\ err' = err
       ELSE /\ user_key' = user_key
            /\ pc' = "exit"
            /\ err' = "Didn't get user key from PUSHOVER_USER_KEY"
    /\ UNCHANGED <<envVars, ioVars, pushover, payload, req, posts, built, libVars>>

\* lines 45-46: get_payload().ok_or(..)?
main_get_payload ==
    /\ pc = "user"
    /\ \E io \in ReadOutcomes(stdin) :
         LET r == get_payload(args, stdin, io[1], io[2]) IN
         /\ payload' = r.result
         /\ stdin' = r.stdin
         /\ reads' = reads + r.reads
         /\ last_read' = IF r.reads > 0 THEN Some(io[1]) ELSE last_read
         /\ IF IsSome(r.result)
            THEN pc' = "payload" /\ err' = err
            ELSE pc' = "exit" /\ err' = "Couldn't get payload."
    /\ UNCHANGED <<envVars, pushover, user_key, req, posts, built, libVars>>

\* line 47: pushover.build_notification(&user_key, payload.trim_end())
main_build ==
    /\ pc = "payload"
    /\ req' = Some(build_notification(Unwrap(pushover), Unwrap(user_key),
                                      trim_end(Unwrap(payload))))
    /\ built' = req'
    /\ pc' = "built"
    /\ UNCHANGED <<envVars, ioVars, pushover, user_key, payload, posts, err, libVars>>

\* lines 48-49: pushover.send(&req)?; the transport answers or fails
main_send ==
    /\ pc = "built"
    /\ posts' = Append(posts, send(Unwrap(pushover), Unwrap(req)))
    /\ \E transport_ok \in BOOLEAN :
         IF transport_ok
         THEN pc' = "exit" /\ err' = err
         ELSE pc' = "exit" /\ err' = "HTTP error"
    /\ UNCHANGED <<envVars, ioVars, pushover, user_key, payload, req, built, libVars>>

Next ==
    \/ main_api_key
    \/ main_user_key
    \/ main_get_payload
    \/ main_build
    \/ main_send

Spec == Init /\ [][Next]_vars

\* ------------------------------------------------------- lib.rs as a library
\* a caller of the crate: one client, one Notification, setters in any order,
\* then any of the outputs
LibInit ==
    /\ env = [PUSHOVER_API_KEY |-> None, PUSHOVER_USER_KEY |-> None]
    /\ args = <<"lib">>
    /\ stdin = Stream(<< >>)
    /\ pc = "lib"
    /\ pushover = None
    /\ user_key = None
    /\ payload = None
    /\ req = None
    /\ posts = << >>
    /\ reads = 0
    /\ last_read = None
    /\ err = ""
    /\ built = None
    /\ hist = << >>
    /\ out = None

mainVars == <<env, args, stdin, pc, user_key, payload, posts, reads, last_read, err>>

\* PushoverClient::new(token)
lib_new ==
    /\ pushover = None
    /\ \E t \in Tokens : pushover' = Some(new(t))
    /\ UNCHANGED <<mainVars, req, built, hist, out>>

\* client.build_notification(user, message)
lib_build_notification ==
    /\ IsSome(pushover)
    /\ req = None
    /\ \E u \in UserKeys, m \in Messages :
         req' = Some(build_notification(Unwrap(pushover), u, m))
    /\ built' = req'
    /\ UNCHANGED <<mainVars, pushover, hist, out>>

\* a setter call on the Notification: req = req.$field(value)
Call(field, value, result) ==
    /\ IsSome(req)
    /\ Len(hist) < MaxCalls
    /\ req' = Some(result)
    /\ hist' = Append(hist, <<field, value>>)
    /\ UNCHANGED <<mainVars, pushover, built, out>>

lib_title == \E v \in Texts : Call("title", v, title(Unwrap(req), v))
lib_url == \E v \in Texts : Call("url", v, url(Unwrap(req), v))
lib_url_title == \E v \in Texts : Call("url_title", v, url_title(Unwrap(req), v))
lib_priority == \E v \in Priority : Call("priority", v, priority(Unwrap(req), v))

\* an output taken of the current Notification or client
Output(kind, of, data) ==
    /\ out' = Some([kind |-> kind, of |-> of, data |-> data])
    /\ UNCHANGED <<mainVars, pushover, req, built, hist>>

\* client.send(&req)
lib_send ==
    /\ IsSome(req)
    /\ Output("form", Unwrap(req), send(Unwrap(pushover), Unwrap(req)).body)

\* serde_json::to_string(&req)
lib_to_json ==
    /\ IsSome(req)
    /\ Output("json", Unwrap(req), JsonBody(Unwrap(req)))

\* format!("{:?}", req)
lib_debug_notification ==
    /\ IsSome(req)
    /\ Output("debug", Unwrap(req), DebugNotification(Unwrap(req)))

\* format!("{:?}", client)
lib_debug_client ==
    /\ IsSome(pushover)
    /\ Output("debug_client", Unwrap(pushover), DebugClient(Unwrap(pushover)))

LibNext ==
    \/ lib_new
    \/ lib_build_notification
    \/ lib_title
    \/ lib_url
    \/ lib_url_title
    \/ lib_priority
    \/ lib_send
    \/ lib_to_json
    \/ lib_debug_notification
    \/ lib_debug_client

LibSpec == LibInit /\ [][LibNext]_vars

\* ================================================================ claims
CliArgs == SubSeq(args, 2, Len(args))

\* main has run get_payload
Resolved == pc \in {"payload", "built"} \/ (pc = "exit" /\ IsSome(user_key))

\* both credentials were read from the environment
CredentialsObtained ==
    /\ IsSome(env.PUSHOVER_API_KEY)
    /\ pushover = Some(new(Unwrap(env.PUSHOVER_API_KEY)))
    /\ IsSome(env.PUSHOVER_USER_KEY)
    /\ user_key = env.PUSHOVER_USER_KEY

RECURSIVE Offset(_, _)
\* where element i of xs starts in xs joined with one separator character
Offset(xs, i) == IF i = 1 THEN 0 ELSE Offset(xs, i - 1) + Len(xs[i - 1]) + 1

IsSpaceJoined(s, xs) ==
    /\ Len(s) = Offset(xs, Len(xs)) + Len(xs[Len(xs)])
    /\ \A i \in 1..Len(xs) :
         SubSeq(s, Offset(xs, i) + 1, Offset(xs, i) + Len(xs[i])) = xs[i]
    /\ \A i \in 1..(Len(xs) - 1) : s[Offset(xs, i) + Len(xs[i]) + 1] = " "

\* C1: with one or more arguments the resolved payload is present and is the
\* arguments in order with exactly one space between neighbours; a single
\* argument is returned unchanged.
C1_ArgsJoined ==
    (Resolved /\ Len(CliArgs) >= 1) =>
        /\ IsSome(payload)
        /\ IsSpaceJoined(Unwrap(payload), CliArgs)
        /\ (Len(CliArgs) = 1 => Unwrap(payload) = CliArgs[1])

C1_Witness ==
    /\ Resolved
    /\ CliArgs = << <<" ", "a", "\t">>, <<"a", " ", "a">> >>
    /\ payload = Some(<<" ", "a", "\t", " ", "a", " ", "a">>)

\* p is the first line of content: a non-empty prefix that stops at the first
\* line terminator, or is all of content when there is none
IsFirstLine(p, content) ==
    /\ Len(p) >= 1
    /\ Len(p) <= Len(content)
    /\ p = SubSeq(content, 1, Len(p))
    /\ \A i \in 1..(Len(p) - 1) : p[i] # "\n"
    /\ (p[Len(p)] = "\n" \/ Len(p) = Len(content))

\* C2: with no arguments exactly one line read is made; a failed read or a
\* read of zero bytes gives no payload (never an empty one); otherwise the
\* payload is the first line with its terminator, and nothing after that
\* line was taken from the stream.
C2_StdinLine ==
    (Resolved /\ Len(CliArgs) = 0) =>
        /\ reads = 1
        /\ IsSome(last_read)
        /\ IF ~Unwrap(last_read) \/ Len(stdin.content) = 0
           THEN payload = None
           ELSE /\ IsSome(payload)
                /\ IsFirstLine(Unwrap(payload), stdin.content)
                /\ stdin.pos = Len(Unwrap(payload))

C2_Witness ==
    /\ Resolved
    /\ Len(CliArgs) = 0
    /\ stdin.content = <<"a", "\n", "a">>
    /\ payload = Some(<<"a", "\n">>)
    /\ stdin.pos = 2

\* C3: at most one line read is made, and none when an argument is given: the
\* stream is untouched and the payload is the same for every stream content
\* and every read outcome.
C3_NoReadWithArgs ==
    /\ reads <= 1
    /\ Len(CliArgs) >= 1 =>
         /\ reads = 0
         /\ stdin.pos = 0
         /\ last_read = None
         /\ pc = "payload" =>
              \A c \in StdinContents, ok \in BOOLEAN :
                 LET r == get_payload(args, Stream(c), ok, 0) IN
                 r.result = payload /\ r.stdin = Stream(c) /\ r.reads = 0

C3_Witness ==
    /\ pc = "payload"
    /\ Len(CliArgs) = 1
    /\ stdin.content = <<"a", "\n">>
    /\ stdin.pos = 0
    /\ reads = 0
    /\ payload = Some(<<"a", " ", "a">>)

\* the message field of a posted request
PostedMessage(post) == ValueOf(post.body, "message")[2]

\* C8: the input stream is read only once both credentials were obtained; at
\* most one POST is issued, and only with both credentials and a payload; a
\* run with a missing credential or no payload ends in an error without a
\* POST, and a missing credential ends it before the stream is read.
C8_GatedOrder ==
    /\ reads > 0 => CredentialsObtained
    /\ Len(posts) <= 1
    /\ Len(posts) = 1 => CredentialsObtained /\ IsSome(payload) /\ pc = "exit"
    /\ (pc = "exit" /\ (env.PUSHOVER_API_KEY = None \/ env.PUSHOVER_USER_KEY = None)) =>
         err # "" /\ posts = << >> /\ reads = 0
    /\ (pc = "exit" /\ payload = None) => err # "" /\ posts = << >>

C8_Witness ==
    /\ pc = "exit"
    /\ Len(posts) = 1
    /\ reads = 1
    /\ err = ""

\* C9: every posted Notification has a message that is non-empty after
\* trimming.
C9_MessageNonEmpty ==
    \A i \in 1..Len(posts) : Len(trim_end(PostedMessage(posts[i]))) > 0

\* removes one trailing line terminator, and nothing else
StripLineTerminator(s) ==
    IF Len(s) > 0 /\ s[Len(s)] = "\n" THEN SubSeq(s, 1, Len(s) - 1) ELSE s

\* C10 as stated: the posted message is the payload less a trailing line
\* terminator, other trailing whitespace kept.
C10_OnlyLineTerminatorRemoved ==
    \A i \in 1..Len(posts) :
        PostedMessage(posts[i]) = StripLineTerminator(Unwrap(payload))

\* C10 amended: the posted message is the payload less all of its trailing
\* whitespace (spaces, tabs and line terminators alike); the rest of the
\* payload, leading whitespace included, is kept.
C10_TrailingWhitespaceRemoved ==
    \A i \in 1..Len(posts) :
        LET m == PostedMessage(posts[i])
            p == Unwrap(payload)
        IN /\ Len(m) <= Len(p)
           /\ m = SubSeq(p, 1, Len(m))
           /\ \A j \in (Len(m) + 1)..Len(p) : p[j] \in {" ", "\t", "\n"}
           /\ Len(m) > 0 => m[Len(m)] \notin {" ", "\t", "\n"}

C10_Witness ==
    /\ Len(posts) = 1
    /\ payload = Some(<<" ", "a", "\t">>)
    /\ PostedMessage(posts[1]) = <<" ", "a">>

\* ------------------------------------------------------- library claims
Serialized == IsSome(out) /\ Unwrap(out).kind \in {"form", "json"}

C5_DebugHidesToken ==
    /\ IsSome(req) =>
         \A t1, t2 \in Tokens \cup {"...", ""} :
            DebugNotification([Unwrap(req) EXCEPT !.token = t1])
              = DebugNotification([Unwrap(req) EXCEPT !.token = t2])
    /\ IsSome(pushover) =>
         \A t1, t2 \in Tokens \cup {"...", ""} :
            DebugClient([Unwrap(pushover) EXCEPT !.token = t1])
              = DebugClient([Unwrap(pushover) EXCEPT !.token = t2])
    /\ (IsSome(out) /\ Unwrap(out).kind \in {"debug", "debug_client"}) =>
         Unwrap(out).data[2] = <<"token", "...">>

C5_Witness ==
    /\ IsSome(out)
    /\ Unwrap(out).kind = "debug"
    /\ Unwrap(out).of.token = "tok2"
    /\ IsSome(Unwrap(out).of.title)
    /\ Unwrap(out).data[2] = <<"token", "...">>

\* the value of the last call of field's setter, None when it was not called
LastCall(field) ==
    LET idx == {i \in 1..Len(hist) : hist[i][1] = field} IN
    IF idx = {} THEN None
    ELSE Some(hist[CHOOSE i \in idx : \A j \in idx : j <= i][2])

\* the setter method named field
Apply(n, field, v) ==
    CASE field = "title" -> title(n, v)
      [] field = "url" -> url(n, v)
      [] field = "url_title" -> url_title(n, v)
      [] field = "priority" -> priority(n, v)

\* C6: after any sequence of setter calls each optional field holds the last
\* value given to its own setter, or is absent when that setter was never
\* called; token, user and message are as built; setters of different fields
\* commute.
C6_SettersLastWins ==
    (IsSome(req) /\ pc = "lib") =>
        LET n == Unwrap(req) IN
        /\ \A i \in 1..Len(OptionalFields) :
             n[OptionalFields[i]] = LastCall(OptionalFields[i])
        /\ n.token = Unwrap(built).token
        /\ n.user = Unwrap(built).user
        /\ n.message = Unwrap(built).message
        /\ \A i, j \in 1..Len(OptionalFields) :
             i < j =>
               \A a \in Values(OptionalFields[i]), b \in Values(OptionalFields[j]) :
                  Apply(Apply(n, OptionalFields[i], a), OptionalFields[j], b)
                    = Apply(Apply(n, OptionalFields[j], b), OptionalFields[i], a)

C6_Witness ==
    /\ IsSome(req)
    /\ hist = << <<"title", <<"x">> >>, <<"priority", "HighPriority">>, <<"title", <<"y">> >> >>
    /\ Unwrap(req).title = Some(<<"y">>)
    /\ Unwrap(req).priority = Some("HighPriority")
    /\ Unwrap(req).url = None

\* C7: each Priority is written as its table value (-2, -1, 1, 2), never 0,
\* and a Notification with a priority set serializes that value under the
\* priority key.
C7_PriorityTable ==
    /\ PriorityWire("NoNotification") = -2
    /\ PriorityWire("QuietNotification") = -1
    /\ PriorityWire("HighPriority") = 1
    /\ PriorityWire("RequireConfirmation") = 2
    /\ (Serialized /\ IsSome(Unwrap(out).of.priority)) =>
         LET v == ValueOf(Unwrap(out).data, "priority") IN
         /\ v[1] = "i8"
         /\ v[2] # 0
         /\ Unwrap(out).of.priority = Some("HighPriority") => v[2] = 1
         /\ Unwrap(out).of.priority = Some("NoNotification") => v[2] = -2
         /\ Unwrap(out).of.priority = Some("QuietNotification") => v[2] = -1
         /\ Unwrap(out).of.priority = Some("RequireConfirmation") => v[2] = 2

C7_Witness ==
    /\ IsSome(out)
    /\ Unwrap(out).kind = "json"
    /\ Unwrap(out).of.priority = Some("HighPriority")
    /\ ValueOf(Unwrap(out).data, "priority") = <<"i8", 1>>

====
